---- MODULE Spec2Model ----
(***************************************************************************)
(* Model of the alert-to-remediation Lambda (lambda/auto_heal_lambda.py).  *)
(*                                                                         *)
(* Text is modelled at character level: a Python str is a sequence of      *)
(* one-character strings, so that startswith, the "in" substring test,     *)
(* lower() and the regular expression i-[a-z0-9]+ are computed as Python   *)
(* computes them.  A decoded JSON value is a tagged record.  The text of   *)
(* an SNS Message is either JsonText(v), the JSON document that encodes    *)
(* the value v, or JStr(s), character data that is not a JSON document.    *)
(***************************************************************************)
EXTENDS Integers, Sequences, FiniteSets, TLC

(***************************************************************************)
(* Bounds of the model.                                                    *)
(***************************************************************************)
MaxTokens == 2
NumInvocations == 2
MaxRequests == 4

(***************************************************************************)
(* Python values.                                                          *)
(***************************************************************************)
None == [t |-> "null"]
Unset == [t |-> "unset"]
JNum(n) == [t |-> "num", n |-> n]
JStr(s) == [t |-> "str", s |-> s]
JList(l) == [t |-> "list", l |-> l]
JObj(o) == [t |-> "obj", o |-> o]
JsonText(v) == [t |-> "str", json |-> v]
EmptyDict == JObj(<<>>)

IsStr(v) == v.t = "str"
IsDict(v) == v.t = "obj"

Return(v) == [raised |-> FALSE, val |-> v]
Raise(e) == [raised |-> TRUE, exc |-> e]

(***************************************************************************)
(* Character data.                                                         *)
(***************************************************************************)
LowerLetters ==
    <<"a","b","c","d","e","f","g","h","i","j","k","l","m",
      "n","o","p","q","r","s","t","u","v","w","x","y","z">>
UpperLetters ==
    <<"A","B","C","D","E","F","G","H","I","J","K","L","M",
      "N","O","P","Q","R","S","T","U","V","W","X","Y","Z">>
Digits == <<"0","1","2","3","4","5","6","7","8","9">>

Range(f) == {f[x] : x \in DOMAIN f}

\* str.lower() on one character
LowerChar(c) ==
    IF c \in Range(UpperLetters)
    THEN LowerLetters[CHOOSE k \in DOMAIN UpperLetters : UpperLetters[k] = c]
    ELSE c

\* str.lower()
lower(s) == [k \in 1..Len(s) |-> LowerChar(s[k])]

\* str.startswith(prefix)
startswith(s, prefix) ==
    /\ Len(s) >= Len(prefix)
    /\ SubSeq(s, 1, Len(prefix)) = prefix

\* the substring test  sub in s
Contains(s, sub) ==
    \E k \in 1..(Len(s) - Len(sub) + 1) : SubSeq(s, k, k + Len(sub) - 1) = sub

\* the character class [a-z0-9]
IdChars == Range(LowerLetters) \cup Range(Digits)

\* positions at which the pattern i-[a-z0-9]+ can start
MatchStarts(s) ==
    {k \in 1..(Len(s) - 2) :
        s[k] = "i" /\ s[k+1] = "-" /\ s[k+2] \in IdChars}

\* last position of the greedy run [a-z0-9]+ that starts at position k
RECURSIVE RunEnd(_, _)
RunEnd(s, k) ==
    IF k < Len(s) /\ s[k+1] \in IdChars THEN RunEnd(s, k + 1) ELSE k

\* re.search(r'(i-[a-z0-9]+)', s): the leftmost, longest match or None
re_search(s) ==
    IF MatchStarts(s) = {}
    THEN None
    ELSE LET k == CHOOSE m \in MatchStarts(s) : \A n \in MatchStarts(s) : m <= n
         IN  JStr(SubSeq(s, k, RunEnd(s, k + 2)))

\* decimal digits of a natural number
RECURSIVE NatStr(_)
NatStr(n) ==
    IF n < 10 THEN <<Digits[n + 1]>>
    ELSE NatStr(n \div 10) \o <<Digits[(n % 10) + 1]>>

\* str(v) for the scalar values a raw_message field holds in this model
PyStr(v) ==
    CASE v.t = "str"  -> v.s
      [] v.t = "null" -> <<"N","o","n","e">>
      [] v.t = "num"  -> NatStr(v.n)

\* truth value of a Python object
Truthy(v) ==
    CASE v.t = "null"  -> FALSE
      [] v.t = "num"   -> v.n # 0
      [] v.t = "str"   -> IF "s" \in DOMAIN v THEN Len(v.s) > 0 ELSE TRUE
      [] v.t = "list"  -> Len(v.l) > 0
      [] v.t = "obj"   -> DOMAIN v.o # {}
      [] OTHER         -> TRUE

\* json.loads(text)
json_loads(text) ==
    IF "json" \in DOMAIN text THEN Return(text.json) ELSE Raise("JSONDecodeError")

\* obj.get(key, default): AttributeError on anything that is not a dict
Get(obj, key, default) ==
    IF ~IsDict(obj) THEN Raise("AttributeError")
    ELSE IF key \in DOMAIN obj.o THEN Return(obj.o[key])
    ELSE Return(default)

\* obj[key] with a string key
Subscript(obj, key) ==
    IF ~IsDict(obj) THEN Raise("TypeError")
    ELSE IF key \in DOMAIN obj.o THEN Return(obj.o[key])
    ELSE Raise("KeyError")

\* seq[0]
First(v) ==
    CASE v.t = "list" -> IF Len(v.l) > 0 THEN Return(v.l[1]) ELSE Raise("IndexError")
      [] v.t = "obj"  -> Raise("KeyError")
      [] v.t = "null" -> Raise("TypeError")
      [] v.t = "num"  -> Raise("TypeError")

(***************************************************************************)
(* Literals of the source.                                                 *)
(***************************************************************************)
RAW_MESSAGE == <<"r","a","w","_","m","e","s","s","a","g","e">>

\* the characters of a dict key that is also used as a str
KeyChars(key) == CASE key = "raw_message" -> RAW_MESSAGE

\* the membership test  key in container
In(key, container) ==
    CASE container.t = "obj"  -> Return(key \in DOMAIN container.o)
      [] container.t = "list" ->
            Return(\E k \in DOMAIN container.l : container.l[k] = JStr(KeyChars(key)))
      [] container.t = "str"  -> Return(Contains(container.s, KeyChars(key)))
      [] OTHER                -> Raise("TypeError")

ID_PREFIX == <<"i","-">>
KW_STATUS_CHECK == <<"s","t","a","t","u","s","-","c","h","e","c","k">>
KW_STATUSCHECKFAILED ==
    <<"s","t","a","t","u","s","c","h","e","c","k","f","a","i","l","e","d">>
KW_CPU == <<"c","p","u">>
KW_UTILIZATION == <<"u","t","i","l","i","z","a","t","i","o","n">>
KW_CPUUTILIZATION == KW_CPU \o KW_UTILIZATION
KW_MEMORY == <<"m","e","m","o","r","y">>
KW_MEMORYUTILIZATION == KW_MEMORY \o KW_UTILIZATION
KW_DISK == <<"d","i","s","k">>
KW_DISKUTILIZATION == KW_DISK \o KW_UTILIZATION

(***************************************************************************)
(* parse_sns_message                                                       *)
(***************************************************************************)
\* event.get('Records', [{}])[0].get('Sns', {}).get('Message', '{}')
message_str_of(event) ==
    LET records == Get(event, "Records", JList(<<EmptyDict>>)) IN
    IF records.raised THEN records ELSE
    LET first == First(records.val) IN
    IF first.raised THEN first ELSE
    LET sns_message == Get(first.val, "Sns", EmptyDict) IN
    IF sns_message.raised THEN sns_message ELSE
    Get(sns_message.val, "Message", JsonText(EmptyDict))

\* a str is decoded, and wrapped as raw_message if it is not JSON
decode_message(message_str) ==
    IF IsStr(message_str)
    THEN LET decoded == json_loads(message_str) IN
         IF decoded.raised
         THEN JObj([k \in {"raw_message"} |-> message_str])
         ELSE decoded.val
    ELSE message_str

\* the body of the try block
parse_body(event) ==
    LET message_str == message_str_of(event) IN
    IF message_str.raised THEN message_str
    ELSE Return(decode_message(message_str.val))

\* any exception of the body is logged and an empty dict returned
parse_sns_message(event) ==
    LET body == parse_body(event) IN
    IF body.raised THEN EmptyDict ELSE body.val

(***************************************************************************)
(* extract_instance_id                                                     *)
(***************************************************************************)
\* a changed order of the strategies: the flat field is tried first
paths_FlatFirst ==
    << <<"instance_id">>,
       <<"Trigger", "Dimensions", "InstanceId">>,
       <<"InstanceId">> >>

paths ==
    << <<"Trigger", "Dimensions", "InstanceId">>,
       <<"instance_id">>,
       <<"InstanceId">> >>

\* for key in path: value = value[key]
RECURSIVE Walk(_, _)
Walk(value, path) ==
    IF path = <<>> THEN Return(value)
    ELSE LET r == Subscript(value, Head(path)) IN
         IF r.raised THEN r ELSE Walk(r.val, Tail(path))

\* a test of the candidate that leaves the prefix out
ValidCandidate_AnyText(value) ==
    IsStr(value) /\ Truthy(value)

\* value and isinstance(value, str) and value.startswith('i-')
ValidCandidate(value) ==
    IsStr(value) /\ Truthy(value) /\ startswith(value.s, ID_PREFIX)

\* the loop over the paths: the first valid candidate, or None
RECURSIVE TryPaths(_, _)
TryPaths(message, ps) ==
    IF ps = <<>> THEN None
    ELSE LET r == Walk(message, Head(ps)) IN
         IF ~r.raised /\ ValidCandidate(r.val) THEN r.val
         ELSE TryPaths(message, Tail(ps))

extract_instance_id(message) ==
    LET found == TryPaths(message, paths) IN
    IF found # None THEN Return(found) ELSE
    LET has_raw == In("raw_message", message) IN
    IF has_raw.raised THEN has_raw ELSE
    IF ~has_raw.val THEN Return(None) ELSE
    LET raw == Subscript(message, "raw_message") IN
    IF raw.raised THEN raw ELSE Return(re_search(PyStr(raw.val)))

(***************************************************************************)
(* determine_healing_action                                                *)
(***************************************************************************)
\* message.get(key, '').lower()
GetLower(obj, key) ==
    LET v == Get(obj, key, JStr(<<>>)) IN
    IF v.raised THEN v
    ELSE IF ~IsStr(v.val) THEN Raise("AttributeError")
    ELSE Return(lower(v.val.s))

\* a changed order of the tests: CPU is tested before status-check
ActionFor_CpuFirst(alarm_name, metric_name) ==
    IF Contains(alarm_name, KW_CPU) \/ Contains(metric_name, KW_CPUUTILIZATION)
    THEN "optimize_cpu"
    ELSE IF Contains(alarm_name, KW_STATUS_CHECK) \/ Contains(metric_name, KW_STATUSCHECKFAILED)
    THEN "reboot"
    ELSE IF Contains(alarm_name, KW_MEMORY) \/ Contains(metric_name, KW_MEMORYUTILIZATION)
    THEN "clear_cache"
    ELSE IF Contains(alarm_name, KW_DISK) \/ Contains(metric_name, KW_DISKUTILIZATION)
    THEN "cleanup_disk"
    ELSE "diagnostic"

\* the chain of substring tests on the lower-cased names
ActionFor(alarm_name, metric_name) ==
    IF Contains(alarm_name, KW_STATUS_CHECK) \/ Contains(metric_name, KW_STATUSCHECKFAILED)
    THEN "reboot"
    ELSE IF Contains(alarm_name, KW_CPU) \/ Contains(metric_name, KW_CPUUTILIZATION)
    THEN "optimize_cpu"
    ELSE IF Contains(alarm_name, KW_MEMORY) \/ Contains(metric_name, KW_MEMORYUTILIZATION)
    THEN "clear_cache"
    ELSE IF Contains(alarm_name, KW_DISK) \/ Contains(metric_name, KW_DISKUTILIZATION)
    THEN "cleanup_disk"
    ELSE "diagnostic"

determine_healing_action(message, instance_id) ==
    LET alarm_name == GetLower(message, "AlarmName") IN
    IF alarm_name.raised THEN alarm_name ELSE
    LET trigger == Get(message, "Trigger", EmptyDict) IN
    IF trigger.raised THEN trigger ELSE
    LET metric_name == GetLower(trigger.val, "MetricName") IN
    IF metric_name.raised THEN metric_name ELSE
    Return(ActionFor(alarm_name.val, metric_name.val))

(***************************************************************************)
(* Collaborators: every call returns one of these outcomes.                *)
(***************************************************************************)
RunStates == {"running", "stopped", "pending"}

Instance(state) == [State |-> [Name |-> state]]

\* responses of ec2_client.describe_instances
DescribeResponses ==
    {Raise("ClientError"),
     Return([Reservations |-> <<>>]),
     Return([Reservations |-> <<[Instances |-> <<>>]>>]),
     Return([Reservations |-> <<[Instances |-> <<[InstanceId |-> "nostate"]>>]>>])}
    \cup {Return([Reservations |-> <<[Instances |-> <<Instance(st)>>]>>]) : st \in RunStates}

\* responses of ec2_client.reboot_instances
RebootResponses == {Raise("ClientError"), Return(None)}

\* responses of ssm_client.send_command
SendResponses(i) == {Raise("ClientError"), Return([Command |-> [CommandId |-> i]])}

\* responses of ssm_client.get_command_invocation
Statuses == {"Pending", "InProgress", "Success", "Failed", "TimedOut"}
InvocationResponses ==
    {Raise("ClientError")} \cup {Return([Status |-> st]) : st \in Statuses}

\* responses of sns_client.publish
PublishResponses == {Raise("ClientError"), Return(None)}

(***************************************************************************)
(* get_instance_details                                                    *)
(***************************************************************************)
get_instance_details(resp) ==
    IF resp.raised THEN None
    ELSE IF Len(resp.val.Reservations) = 0 THEN None
    ELSE LET instances == resp.val.Reservations[1].Instances IN
         IF Len(instances) > 0 THEN instances[1] ELSE None

\* instance['State']['Name']
StateName(inst) ==
    IF "State" \in DOMAIN inst THEN Return(inst.State.Name) ELSE Raise("KeyError")

(***************************************************************************)
(* log_healing_action                                                      *)
(***************************************************************************)
log_healing_action(id, act, st, details) ==
    [instance_id |-> id, action |-> act, status |-> st, details |-> details]

(***************************************************************************)
(* Input domains.  Texts are concatenations of at most MaxTokens tokens.   *)
(***************************************************************************)
Absent == [t |-> "absent"]

\* a dict built from a record; fields that are Absent are left out
MkObj(f) == JObj([k \in {x \in DOMAIN f : f[x] # Absent} |-> f[k]])

RECURSIVE Concats(_, _)
Concats(tokens, n) ==
    IF n = 0 THEN {<<>>}
    ELSE LET shorter == Concats(tokens, n - 1) IN
         shorter \cup {s \o tok : s \in shorter, tok \in tokens}

T_STATUS_CHECK == <<"S","t","a","t","u","s","-","C","h","e","c","k">>
T_CPU_UPPER == <<"C","P","U">>
T_MEMORY == <<"M","e","m","o","r","y">>
T_HIGH == <<"h","i","g","h","-">>
NameTokens == {T_STATUS_CHECK, T_CPU_UPPER, KW_CPU, T_MEMORY, KW_DISK, T_HIGH}
NameTexts == Concats(NameTokens, MaxTokens)

T_UTILIZATION == <<"U","t","i","l","i","z","a","t","i","o","n">>
M_STATUSCHECKFAILED ==
    <<"S","t","a","t","u","s","C","h","e","c","k","F","a","i","l","e","d">>
M_CPU == T_CPU_UPPER \o T_UTILIZATION
M_MEMORY == T_MEMORY \o T_UTILIZATION
M_DISK == <<"D","i","s","k">> \o T_UTILIZATION
M_NETWORK == <<"N","e","t","w","o","r","k","I","n">>
MetricNames == {M_STATUSCHECKFAILED, M_CPU, M_MEMORY, M_DISK, M_NETWORK}

ID_A == <<"i","-","0","a","b","c">>
ID_B == <<"i","-","0","d","e","f">>
ID_MIXED == <<"i","-","9","X","y">>
ID_OTHER == <<"x","-","1">>
T_HOST == <<"h","o","s","t"," ">>
RawTokens == {T_HOST, ID_A, ID_PREFIX, ID_MIXED}
RawTexts == Concats(RawTokens, MaxTokens)

\* values an identifier field may hold
IdValues == {JNum(7), JStr(<<>>), JStr(ID_A), JStr(ID_B), JStr(ID_PREFIX), JStr(ID_OTHER)}

\* values the Trigger field may hold, Dimensions.InstanceId among them
IdTriggers ==
    {None, JStr(ID_A), EmptyDict, JObj([k \in {"Dimensions"} |-> JList(<<>>)])}
    \cup {JObj([k \in {"Dimensions"} |-> JObj([n \in {"InstanceId"} |-> v])]) : v \in IdValues}

\* decoded values that are not dicts
NonDicts ==
    {None, JNum(0), JNum(5), JList(<<>>), JList(<<JStr(RAW_MESSAGE)>>),
     JStr(T_HOST), JStr(T_HOST \o RAW_MESSAGE)}

\* messages on which extract_instance_id is checked
ExtractMessages ==
    NonDicts \cup
    {MkObj([Trigger |-> tr, instance_id |-> a, InstanceId |-> b, raw_message |-> raw]) :
        tr \in IdTriggers \cup {Absent},
        a \in IdValues \cup {Absent},
        b \in IdValues \cup {Absent},
        raw \in {Absent, None, JNum(7)} \cup {JStr(x) : x \in RawTexts}}

\* values the AlarmName field may hold
AlarmNames == {Absent, None, JNum(1)} \cup {JStr(x) : x \in NameTexts}

\* values the Trigger field may hold, MetricName among them
MetricTriggers ==
    {Absent, None, JStr(M_CPU), JList(<<>>), EmptyDict}
    \cup {JObj([k \in {"MetricName"} |-> v]) :
            v \in {None, JNum(1)} \cup {JStr(x) : x \in MetricNames}}

\* messages on which determine_healing_action is checked; each carries an identifier
ClassifyMessages ==
    {MkObj([AlarmName |-> an, Trigger |-> tr, instance_id |-> JStr(ID_A)]) :
        an \in AlarmNames, tr \in MetricTriggers}

Envelope(payload) ==
    JObj([k \in {"Records"} |->
        JList(<<JObj([s \in {"Sns"} |-> JObj([m \in {"Message"} |-> payload])])>>)])

\* events on which parse_sns_message is checked
ParseEvents ==
    {None, JList(<<>>), EmptyDict,
     JObj([k \in {"Records"} |-> None]),
     JObj([k \in {"Records"} |-> EmptyDict]),
     JObj([k \in {"Records"} |-> JList(<<>>)]),
     JObj([k \in {"Records"} |-> JList(<<None>>)]),
     JObj([k \in {"Records"} |-> JList(<<EmptyDict>>)]),
     JObj([k \in {"Records"} |-> JList(<<JObj([s \in {"Sns"} |-> None])>>)]),
     JObj([k \in {"Records"} |-> JList(<<JObj([s \in {"Sns"} |-> EmptyDict])>>)])}
    \cup {Envelope(v) : v \in {None, JNum(3), JList(<<>>), EmptyDict}}
    \cup {Envelope(JStr(x)) : x \in RawTexts}
    \cup {Envelope(JsonText(v)) : v \in NonDicts \cup ClassifyMessages}

\* messages of the events the whole handler is checked on
PipelineMessages ==
    {None, JNum(0), JList(<<>>), EmptyDict}
    \cup {MkObj([AlarmName |-> an, Trigger |-> tr, instance_id |-> a]) :
            an \in {Absent, None, JStr(T_HIGH \o KW_CPU \o T_STATUS_CHECK), JStr(T_MEMORY)},
            tr \in {Absent, None,
                    JObj([k \in {"MetricName"} |-> JStr(M_DISK)]),
                    JObj([k \in {"MetricName", "Dimensions"} |->
                          IF k = "MetricName" THEN JStr(M_CPU)
                          ELSE JObj([n \in {"InstanceId"} |-> JStr(ID_A)])])},
            a \in {Absent, JStr(ID_B)}}

PipelineEvents ==
    {EmptyDict,
     JObj([k \in {"Records"} |-> JList(<<>>)]),
     Envelope(None),
     Envelope(MkObj([instance_id |-> JStr(ID_A)])),
     Envelope(JStr(T_HOST)),
     Envelope(JStr(T_HOST \o ID_A))}
    \cup {Envelope(JsonText(v)) : v \in PipelineMessages}

\* two alarms about the same instance: one classified reboot, one clear_cache
ConcurrentEvents ==
    {Envelope(JsonText(MkObj([AlarmName |-> JStr(x), instance_id |-> JStr(ID_B)]))) :
        x \in {T_HIGH \o KW_CPU \o T_STATUS_CHECK, T_MEMORY}}

(***************************************************************************)
(* Configuration and the state of the invocations of lambda_handler.       *)
(***************************************************************************)
max_attempts == 10
sleep_interval == 3

Invocations == 1..NumInvocations

VARIABLES
    AUTO_HEALING_ENABLED,   \* module-level switch
    SNS_TOPIC_ARN,          \* module-level notification destination, "" if none
    MAX_HEALING_ATTEMPTS,   \* module-level setting, read from the environment
    requests,               \* remediation requests the services received, in order
    pc,                     \* stage each invocation has reached
    event,                  \* the event each invocation was given
    message,                \* local of lambda_handler
    instance_id,            \* local of lambda_handler
    instance,               \* local of lambda_handler
    action,                 \* local of lambda_handler
    success,                \* local of lambda_handler
    ssm_instance,           \* local "instance" of execute_ssm_command
    command_id,             \* local of execute_ssm_command
    attempt,                \* iterations of the polling loop started so far
    status,                 \* local of execute_ssm_command: the last status read
    slept,                  \* time spent in time.sleep by the invocation
    calls,                  \* calls made to the collaborators, in order
    audit,                  \* entries written by log_healing_action, in order
    faults,                 \* exceptions raised during the invocation, in order
    response,               \* the value lambda_handler returned
    aws_credentials,        \* dashboard backend: the stored credential record
    http,                   \* dashboard backend: the requests served, in order
    reply                   \* dashboard backend: the last response returned

config == <<AUTO_HEALING_ENABLED, SNS_TOPIC_ARN, MAX_HEALING_ATTEMPTS>>
\* the state of the Lambda function
handler_vars == <<AUTO_HEALING_ENABLED, SNS_TOPIC_ARN, MAX_HEALING_ATTEMPTS, requests, pc, event, message, instance_id,
          instance, action, success, ssm_instance, command_id, attempt, status,
          slept, calls, audit, faults, response>>
\* the state of the dashboard backend
dashboard == <<aws_credentials, http, reply>>
vars == <<AUTO_HEALING_ENABLED, SNS_TOPIC_ARN, MAX_HEALING_ATTEMPTS, requests, pc, event, message, instance_id,
          instance, action, success, ssm_instance, command_id, attempt, status,
          slept, calls, audit, faults, response,
          aws_credentials, http, reply>>

Call(op, by, arg) == [op |-> op, by |-> by, arg |-> arg]
Fault(stage, exc, caught_by) == [stage |-> stage, exc |-> exc, caught_by |-> caught_by]

\* an outermost except clause that drops the message of the exception
ErrorResponse_NoMessage(exc) ==
    [statusCode |-> 500, body |-> [error |-> "Lambda execution failed", exc |-> ""]]

\* the response of the outermost except clause of lambda_handler
ErrorResponse(exc) ==
    [statusCode |-> 500, body |-> [error |-> "Lambda execution failed", exc |-> exc]]

\* a loop that runs one iteration too many
InRange_OneMore(k) == k \in 0..max_attempts

\* for attempt in range(max_attempts)
InRange(k) == k \in 0..(max_attempts - 1)

(***************************************************************************)
(* lambda_handler, one action per stage.                                   *)
(***************************************************************************)
\* exceptions raised (and caught) inside parse_sns_message
ParseFaults(ev) ==
    LET message_str == message_str_of(ev) IN
    IF message_str.raised
    THEN <<Fault("parse", message_str.exc, "parse_sns_message")>>
    ELSE IF IsStr(message_str.val) /\ json_loads(message_str.val).raised
    THEN <<Fault("parse", "JSONDecodeError", "parse_sns_message")>>
    ELSE <<>>

Parse(i) ==
    /\ pc[i] = "received"
    /\ message' = [message EXCEPT ![i] = parse_sns_message(event[i])]
    /\ faults' = [faults EXCEPT ![i] = @ \o ParseFaults(event[i])]
    /\ pc' = [pc EXCEPT ![i] = "parsed"]
    /\ UNCHANGED <<dashboard, config, requests, event, instance_id, instance, action, success,
                   ssm_instance, command_id, attempt, status, slept, calls, audit, response>>

Extract(i) ==
    /\ pc[i] = "parsed"
    /\ LET r == extract_instance_id(message[i]) IN
       IF r.raised
       THEN /\ faults' = [faults EXCEPT ![i] = Append(@, Fault("extract", r.exc, "lambda_handler"))]
            /\ response' = [response EXCEPT ![i] = ErrorResponse(r.exc)]
            /\ pc' = [pc EXCEPT ![i] = "done"]
            /\ UNCHANGED instance_id
       ELSE /\ instance_id' = [instance_id EXCEPT ![i] = r.val]
            /\ UNCHANGED faults
            /\ IF ~Truthy(r.val)
               THEN /\ response' = [response EXCEPT ![i] =
                          [statusCode |-> 400,
                           body |-> [error |-> "Could not extract instance ID from alert"]]]
                    /\ pc' = [pc EXCEPT ![i] = "done"]
               ELSE /\ pc' = [pc EXCEPT ![i] = "extracted"]
                    /\ UNCHANGED response
    /\ UNCHANGED <<dashboard, config, requests, event, message, instance, action, success,
                   ssm_instance, command_id, attempt, status, slept, calls, audit>>

\* exceptions raised (and caught) inside get_instance_details
InspectFaults(stage, resp) ==
    IF resp.raised THEN <<Fault(stage, resp.exc, "get_instance_details")>>
    ELSE IF Len(resp.val.Reservations) = 0
    THEN <<Fault(stage, "IndexError", "get_instance_details")>>
    ELSE <<>>

\* a handler that does not test the result of the lookup
NotFound_Never(inst) == FALSE

\* if not instance
NotFound(inst) == inst = None

Inspect(i) ==
    /\ pc[i] = "extracted"
    /\ \E resp \in DescribeResponses :
        LET inst == get_instance_details(resp) IN
        /\ calls' = [calls EXCEPT ![i] =
                Append(@, Call("describe_instances", "lambda_handler", instance_id[i]))]
        /\ instance' = [instance EXCEPT ![i] = inst]
        /\ IF NotFound(inst)
           THEN /\ response' = [response EXCEPT ![i] =
                      [statusCode |-> 404,
                       body |-> [error |-> "Instance not found", instance_id |-> instance_id[i]]]]
                /\ faults' = [faults EXCEPT ![i] = @ \o InspectFaults("inspect", resp)]
                /\ pc' = [pc EXCEPT ![i] = "done"]
           ELSE IF StateName(inst).raised
           THEN /\ faults' = [faults EXCEPT ![i] =
                      Append(@, Fault("inspect", StateName(inst).exc, "lambda_handler"))]
                /\ response' = [response EXCEPT ![i] = ErrorResponse(StateName(inst).exc)]
                /\ pc' = [pc EXCEPT ![i] = "done"]
           ELSE /\ pc' = [pc EXCEPT ![i] = "resolved"]
                /\ UNCHANGED <<faults, response>>
    /\ UNCHANGED <<dashboard, config, requests, event, message, instance_id, action, success,
                   ssm_instance, command_id, attempt, status, slept, audit>>

Classify(i) ==
    /\ pc[i] = "resolved"
    /\ LET r == determine_healing_action(message[i], instance_id[i]) IN
       IF r.raised
       THEN /\ faults' = [faults EXCEPT ![i] = Append(@, Fault("classify", r.exc, "lambda_handler"))]
            /\ response' = [response EXCEPT ![i] = ErrorResponse(r.exc)]
            /\ pc' = [pc EXCEPT ![i] = "done"]
            /\ UNCHANGED action
       ELSE /\ action' = [action EXCEPT ![i] = r.val]
            /\ pc' = [pc EXCEPT ![i] = "classified"]
            /\ UNCHANGED <<faults, response>>
    /\ UNCHANGED <<dashboard, config, requests, event, message, instance_id, instance, success,
                   ssm_instance, command_id, attempt, status, slept, calls, audit>>

(***************************************************************************)
(* execute_reboot_instance                                                 *)
(***************************************************************************)
\* an executor that does not read the switch
switch_off_Never == FALSE

\* if not AUTO_HEALING_ENABLED
switch_off == ~AUTO_HEALING_ENABLED

\* a remediation request as the service it is sent to sees it
Request(i, op, id) == [by |-> i, op |-> op, id |-> id]

\* an except clause that reports the failed attempt as done
except_result_True == TRUE

\* except Exception as e: ... return False
except_result == FALSE

\* an executor that drops a request for an instance another invocation acts on
ExecuteReboot_Deduplicated(i) ==
    /\ pc[i] = "classified"
    /\ action[i] = "reboot"
    /\ \A k \in DOMAIN requests :
          requests[k].by = i \/ requests[k].id # instance_id[i]
    /\ IF switch_off
       THEN /\ success' = [success EXCEPT ![i] = FALSE]
            /\ UNCHANGED <<requests, calls, audit, faults>>
       ELSE \E resp \in RebootResponses :
            /\ calls' = [calls EXCEPT ![i] =
                    Append(@, Call("reboot_instances", "execute_reboot_instance", instance_id[i]))]
            /\ requests' = Append(requests, Request(i, "reboot_instances", instance_id[i]))
            /\ IF resp.raised
               THEN /\ faults' = [faults EXCEPT ![i] =
                          Append(@, Fault("execute", resp.exc, "execute_reboot_instance"))]
                    /\ audit' = [audit EXCEPT ![i] =
                          Append(@, log_healing_action(instance_id[i], "reboot", "failed", resp.exc))]
                    /\ success' = [success EXCEPT ![i] = except_result]
               ELSE /\ audit' = [audit EXCEPT ![i] =
                          Append(@, log_healing_action(instance_id[i], "reboot", "initiated",
                                                       "EC2 instance reboot initiated"))]
                    /\ success' = [success EXCEPT ![i] = TRUE]
                    /\ UNCHANGED faults
    /\ pc' = [pc EXCEPT ![i] = "executed"]
    /\ UNCHANGED <<dashboard, config, event, message, instance_id, instance, action,
                   ssm_instance, command_id, attempt, status, slept, response>>

\* an executor that reboots running instances only, as the command path does
ExecuteReboot_RunningOnly(i) ==
    /\ pc[i] = "classified"
    /\ action[i] = "reboot"
    /\ IF switch_off \/ instance[i].State.Name # "running"
       THEN /\ success' = [success EXCEPT ![i] = FALSE]
            /\ UNCHANGED <<requests, calls, audit, faults>>
       ELSE \E resp \in RebootResponses :
            /\ calls' = [calls EXCEPT ![i] =
                    Append(@, Call("reboot_instances", "execute_reboot_instance", instance_id[i]))]
            /\ requests' = Append(requests, Request(i, "reboot_instances", instance_id[i]))
            /\ IF resp.raised
               THEN /\ faults' = [faults EXCEPT ![i] =
                          Append(@, Fault("execute", resp.exc, "execute_reboot_instance"))]
                    /\ audit' = [audit EXCEPT ![i] =
                          Append(@, log_healing_action(instance_id[i], "reboot", "failed", resp.exc))]
                    /\ success' = [success EXCEPT ![i] = except_result]
               ELSE /\ audit' = [audit EXCEPT ![i] =
                          Append(@, log_healing_action(instance_id[i], "reboot", "initiated",
                                                       "EC2 instance reboot initiated"))]
                    /\ success' = [success EXCEPT ![i] = TRUE]
                    /\ UNCHANGED faults
    /\ pc' = [pc EXCEPT ![i] = "executed"]
    /\ UNCHANGED <<dashboard, config, event, message, instance_id, instance, action,
                   ssm_instance, command_id, attempt, status, slept, response>>

ExecuteReboot(i) ==
    /\ pc[i] = "classified"
    /\ action[i] = "reboot"
    /\ IF switch_off
       THEN /\ success' = [success EXCEPT ![i] = FALSE]
            /\ UNCHANGED <<requests, calls, audit, faults>>
       ELSE \E resp \in RebootResponses :
            /\ calls' = [calls EXCEPT ![i] =
                    Append(@, Call("reboot_instances", "execute_reboot_instance", instance_id[i]))]
            /\ requests' = Append(requests, Request(i, "reboot_instances", instance_id[i]))
            /\ IF resp.raised
               THEN /\ faults' = [faults EXCEPT ![i] =
                          Append(@, Fault("execute", resp.exc, "execute_reboot_instance"))]
                    /\ audit' = [audit EXCEPT ![i] =
                          Append(@, log_healing_action(instance_id[i], "reboot", "failed", resp.exc))]
                    /\ success' = [success EXCEPT ![i] = except_result]
               ELSE /\ audit' = [audit EXCEPT ![i] =
                          Append(@, log_healing_action(instance_id[i], "reboot", "initiated",
                                                       "EC2 instance reboot initiated"))]
                    /\ success' = [success EXCEPT ![i] = TRUE]
                    /\ UNCHANGED faults
    /\ pc' = [pc EXCEPT ![i] = "executed"]
    /\ UNCHANGED <<dashboard, config, event, message, instance_id, instance, action,
                   ssm_instance, command_id, attempt, status, slept, response>>

(***************************************************************************)
(* execute_ssm_command                                                     *)
(***************************************************************************)
\* the audit action name f'ssm_{action}'
SsmAction(act) ==
    CASE act = "optimize_cpu" -> "ssm_optimize_cpu"
      [] act = "clear_cache"  -> "ssm_clear_cache"
      [] act = "cleanup_disk" -> "ssm_cleanup_disk"
      [] act = "diagnostic"   -> "ssm_diagnostic"

\* a re-validation that lets every run state through
not_running_Never(name) == FALSE

\* if instance['State']['Name'] != 'running'
not_running(name) == name # "running"

\* the switch is read, then the instance is looked up again
SsmStart(i) ==
    /\ pc[i] = "classified"
    /\ action[i] # "reboot"
    /\ IF switch_off
       THEN /\ success' = [success EXCEPT ![i] = FALSE]
            /\ pc' = [pc EXCEPT ![i] = "executed"]
            /\ UNCHANGED <<ssm_instance, calls, audit, faults>>
       ELSE \E resp \in DescribeResponses :
            LET inst == get_instance_details(resp) IN
            /\ calls' = [calls EXCEPT ![i] =
                    Append(@, Call("describe_instances", "execute_ssm_command", instance_id[i]))]
            /\ ssm_instance' = [ssm_instance EXCEPT ![i] = inst]
            /\ IF NotFound(inst)
               THEN /\ faults' = [faults EXCEPT ![i] = @ \o InspectFaults("execute", resp)]
                    /\ success' = [success EXCEPT ![i] = FALSE]
                    /\ pc' = [pc EXCEPT ![i] = "executed"]
                    /\ UNCHANGED audit
               ELSE IF StateName(inst).raised
               THEN /\ faults' = [faults EXCEPT ![i] =
                          Append(@, Fault("execute", StateName(inst).exc, "execute_ssm_command"))]
                    /\ audit' = [audit EXCEPT ![i] =
                          Append(@, log_healing_action(instance_id[i], SsmAction(action[i]),
                                                       "failed", StateName(inst).exc))]
                    /\ success' = [success EXCEPT ![i] = except_result]
                    /\ pc' = [pc EXCEPT ![i] = "executed"]
               ELSE IF not_running(StateName(inst).val)
               THEN /\ success' = [success EXCEPT ![i] = FALSE]
                    /\ pc' = [pc EXCEPT ![i] = "executed"]
                    /\ UNCHANGED <<audit, faults>>
               ELSE /\ pc' = [pc EXCEPT ![i] = "ssm_send"]
                    /\ UNCHANGED <<success, audit, faults>>
    /\ UNCHANGED <<dashboard, config, requests, event, message, instance_id, instance, action,
                   command_id, attempt, status, slept, response>>

\* an executor that sends the command again after a failure, up to the budget
SendCommand_Retried(i) ==
    /\ pc[i] = "ssm_send"
    /\ \E resp \in SendResponses(i) :
        /\ calls' = [calls EXCEPT ![i] =
                Append(@, Call("send_command", "execute_ssm_command", instance_id[i]))]
        /\ requests' = Append(requests, Request(i, "send_command", instance_id[i]))
        /\ IF resp.raised
           THEN /\ faults' = [faults EXCEPT ![i] =
                      Append(@, Fault("execute", resp.exc, "execute_ssm_command"))]
                /\ audit' = [audit EXCEPT ![i] =
                      Append(@, log_healing_action(instance_id[i], SsmAction(action[i]),
                                                   "failed", resp.exc))]
                /\ success' = [success EXCEPT ![i] = except_result]
                /\ pc' = [pc EXCEPT ![i] =
                      IF Len(requests) + 1 < MAX_HEALING_ATTEMPTS THEN "ssm_send" ELSE "executed"]
                /\ UNCHANGED command_id
           ELSE /\ command_id' = [command_id EXCEPT ![i] = resp.val.Command.CommandId]
                /\ audit' = [audit EXCEPT ![i] =
                      Append(@, log_healing_action(instance_id[i], SsmAction(action[i]),
                                                   "initiated", "Command ID"))]
                /\ pc' = [pc EXCEPT ![i] = "polling"]
                /\ UNCHANGED <<success, faults>>
    /\ UNCHANGED <<dashboard, config, event, message, instance_id, instance, action,
                   ssm_instance, attempt, status, slept, response>>

SendCommand(i) ==
    /\ pc[i] = "ssm_send"
    /\ \E resp \in SendResponses(i) :
        /\ calls' = [calls EXCEPT ![i] =
                Append(@, Call("send_command", "execute_ssm_command", instance_id[i]))]
        /\ requests' = Append(requests, Request(i, "send_command", instance_id[i]))
        /\ IF resp.raised
           THEN /\ faults' = [faults EXCEPT ![i] =
                      Append(@, Fault("execute", resp.exc, "execute_ssm_command"))]
                /\ audit' = [audit EXCEPT ![i] =
                      Append(@, log_healing_action(instance_id[i], SsmAction(action[i]),
                                                   "failed", resp.exc))]
                /\ success' = [success EXCEPT ![i] = except_result]
                /\ pc' = [pc EXCEPT ![i] = "executed"]
                /\ UNCHANGED command_id
           ELSE /\ command_id' = [command_id EXCEPT ![i] = resp.val.Command.CommandId]
                /\ audit' = [audit EXCEPT ![i] =
                      Append(@, log_healing_action(instance_id[i], SsmAction(action[i]),
                                                   "initiated", "Command ID"))]
                /\ pc' = [pc EXCEPT ![i] = "polling"]
                /\ UNCHANGED <<success, faults>>
    /\ UNCHANGED <<dashboard, config, event, message, instance_id, instance, action,
                   ssm_instance, attempt, status, slept, response>>

\* a loop that goes on after a command has failed
TerminalStatuses_SuccessOnly == {"Success"}

\* if status in ['Success', 'Failed']
TerminalStatuses == {"Success", "Failed"}

\* a loop that ends without an answer and reports the command as done
timed_out_result_True == TRUE

\* after the loop: logger.warning(...); return False
timed_out_result == FALSE

\* one iteration of the polling loop: sleep, read the status, decide
Poll(i) ==
    /\ pc[i] = "polling"
    /\ InRange(attempt[i])
    /\ slept' = [slept EXCEPT ![i] = @ + sleep_interval]
    /\ attempt' = [attempt EXCEPT ![i] = @ + 1]
    /\ \E resp \in InvocationResponses :
        /\ calls' = [calls EXCEPT ![i] =
                Append(@, Call("get_command_invocation", "execute_ssm_command", command_id[i]))]
        /\ IF resp.raised
           THEN /\ faults' = [faults EXCEPT ![i] =
                      Append(@, Fault("execute", resp.exc, "execute_ssm_command"))]
                /\ audit' = [audit EXCEPT ![i] =
                      Append(@, log_healing_action(instance_id[i], SsmAction(action[i]),
                                                   "failed", resp.exc))]
                /\ success' = [success EXCEPT ![i] = except_result]
                /\ pc' = [pc EXCEPT ![i] = "executed"]
                /\ UNCHANGED status
           ELSE /\ status' = [status EXCEPT ![i] = resp.val.Status]
                /\ UNCHANGED faults
                /\ IF resp.val.Status \in TerminalStatuses
                   THEN /\ pc' = [pc EXCEPT ![i] = "executed"]
                        /\ IF resp.val.Status = "Success"
                           THEN /\ audit' = [audit EXCEPT ![i] =
                                      Append(@, log_healing_action(instance_id[i],
                                                 SsmAction(action[i]), "completed",
                                                 "SSM command completed successfully"))]
                                /\ success' = [success EXCEPT ![i] = TRUE]
                           ELSE /\ audit' = [audit EXCEPT ![i] =
                                      Append(@, log_healing_action(instance_id[i],
                                                 SsmAction(action[i]), "failed",
                                                 "StandardErrorContent"))]
                                /\ success' = [success EXCEPT ![i] = FALSE]
                   ELSE IF InRange(attempt[i] + 1)
                   THEN UNCHANGED <<audit, success, pc>>
                   ELSE /\ success' = [success EXCEPT ![i] = timed_out_result]
                        /\ pc' = [pc EXCEPT ![i] = "executed"]
                        /\ UNCHANGED audit
    /\ UNCHANGED <<dashboard, config, requests, event, message, instance_id, instance, action,
                   ssm_instance, command_id, response>>

(***************************************************************************)
(* publish_healing_result and the return of lambda_handler                 *)
(***************************************************************************)
\* message.get('AlarmDescription', '')
Details(msg) == Get(msg, "AlarmDescription", JStr(<<>>)).val

Notification(id, act, ok, details) ==
    [healing_action |-> act, instance_id |-> id,
     status |-> IF ok THEN "success" ELSE "failed", details |-> details]

\* a handler that reports as soon as the command is sent, while it is still polled
Publish_WhilePolling(i) ==
    /\ pc[i] \in {"polling", "executed"}
    /\ IF SNS_TOPIC_ARN = ""
       THEN UNCHANGED <<calls, faults>>
       ELSE \E resp \in PublishResponses :
            /\ calls' = [calls EXCEPT ![i] =
                    Append(@, Call("publish", "publish_healing_result",
                           Notification(instance_id[i], action[i], success[i], Details(message[i]))))]
            /\ IF resp.raised
               THEN faults' = [faults EXCEPT ![i] =
                        Append(@, Fault("report", resp.exc, "publish_healing_result"))]
               ELSE UNCHANGED faults
    /\ pc' = [pc EXCEPT ![i] = "reported"]
    /\ UNCHANGED <<dashboard, config, requests, event, message, instance_id, instance, action, success,
                   ssm_instance, command_id, attempt, status, slept, audit, response>>

Publish(i) ==
    /\ pc[i] = "executed"
    /\ IF SNS_TOPIC_ARN = ""
       THEN UNCHANGED <<calls, faults>>
       ELSE \E resp \in PublishResponses :
            /\ calls' = [calls EXCEPT ![i] =
                    Append(@, Call("publish", "publish_healing_result",
                           Notification(instance_id[i], action[i], success[i], Details(message[i]))))]
            /\ IF resp.raised
               THEN faults' = [faults EXCEPT ![i] =
                        Append(@, Fault("report", resp.exc, "publish_healing_result"))]
               ELSE UNCHANGED faults
    /\ pc' = [pc EXCEPT ![i] = "reported"]
    /\ UNCHANGED <<dashboard, config, requests, event, message, instance_id, instance, action, success,
                   ssm_instance, command_id, attempt, status, slept, audit, response>>

\* a response that does not depend on the outcome
StatusCode_Always200(ok) == 200

\* 200 if success else 500
StatusCode(ok) == IF ok THEN 200 ELSE 500

\* a handler that lets an exception of the publish reach its outermost except
Respond_PublishFaultEscapes(i) ==
    /\ pc[i] = "reported"
    /\ response' = [response EXCEPT ![i] =
            IF \E k \in DOMAIN faults[i] : faults[i][k].stage = "report"
            THEN ErrorResponse("ClientError")
            ELSE [statusCode |-> StatusCode(success[i]),
                  body |-> [instance_id |-> instance_id[i], action |-> action[i],
                            status |-> IF success[i] THEN "completed" ELSE "failed"]]]
    /\ pc' = [pc EXCEPT ![i] = "done"]
    /\ UNCHANGED <<dashboard, config, requests, event, message, instance_id, instance, action, success,
                   ssm_instance, command_id, attempt, status, slept, calls, audit, faults>>

\* return {'statusCode': ..., 'body': json.dumps({...})}
Respond(i) ==
    /\ pc[i] = "reported"
    /\ response' = [response EXCEPT ![i] =
            [statusCode |-> StatusCode(success[i]),
             body |-> [instance_id |-> instance_id[i], action |-> action[i],
                       status |-> IF success[i] THEN "completed" ELSE "failed"]]]
    /\ pc' = [pc EXCEPT ![i] = "done"]
    /\ UNCHANGED <<dashboard, config, requests, event, message, instance_id, instance, action, success,
                   ssm_instance, command_id, attempt, status, slept, calls, audit, faults>>

(***************************************************************************)
(* The dashboard backend: the credential record and the four routes that   *)
(* read or write it.  A request is handled from its body to its response.  *)
(***************************************************************************)
KEY_A == <<"A","K","1">>
KEY_B == <<"A","K","2">>
SECRET == <<"s","k">>
US_EAST_1 == <<"u","s","-","e","a","s","t","-","1">>
EU_WEST_1 == <<"e","u","-","w","e","s","t","-","1">>
ACCOUNT == <<"1","1","1">>

\* aws_credentials as the module creates it, and as logout leaves it
NoCredentials ==
    [access_key |-> None, secret_key |-> None, account_id |-> None,
     region |-> None, use_env |-> FALSE]

\* bodies of the login requests: none, one that is not JSON (Unset), a list,
\* and objects
LoginBodies ==
    {None, Unset, JList(<<JNum(1)>>)}
    \cup {MkObj([accessKey |-> a, secretKey |-> s, region |-> r]) :
            a \in {Absent, JStr(<<>>), JStr(KEY_A), JStr(KEY_B)},
            s \in {Absent, JStr(SECRET)},
            r \in {Absent, JStr(EU_WEST_1)}}

\* botocore.exceptions.ClientError, by error code
ClientErrors == {"ClientError.InvalidClientTokenId", "ClientError.AccessDenied"}

\* what sts.get_caller_identity() does
StsResponses ==
    {Return([Account |-> JStr(ACCOUNT)])}
    \cup {Raise(e) : e \in ClientErrors \cup {"NoCredentialsError", "EndpointConnectionError"}}

\* request.json or {}
BodyOrEmpty(json) == IF Truthy(json) THEN json ELSE EmptyDict

\* the request is recorded with its status code, the response is kept whole
Served(route, code, body) ==
    /\ http' = Append(http, [route |-> route, code |-> code])
    /\ reply' = [code |-> code, body |-> body]

ErrorBody(text) == [error |-> text]
SuccessBody(account, region) == [success |-> TRUE, accountId |-> account, region |-> region]

aws_login ==
    /\ Len(http) < MaxRequests
    /\ \E json \in LoginBodies, idt \in StsResponses :
        LET data == BodyOrEmpty(json)
            access_key == Get(data, "accessKey", None)
            secret_key == Get(data, "secretKey", None)
            region == Get(data, "region", JStr(US_EAST_1))
        IN  IF json = Unset
            THEN /\ Served("login", 400, ErrorBody("BadRequest"))
                 /\ UNCHANGED aws_credentials
            ELSE IF access_key.raised
            THEN /\ Served("login", 500, ErrorBody(access_key.exc))
                 /\ UNCHANGED aws_credentials
            ELSE IF ~Truthy(access_key.val) \/ ~Truthy(secret_key.val)
            THEN /\ Served("login", 400, ErrorBody("Access Key and Secret Key are required"))
                 /\ UNCHANGED aws_credentials
            ELSE IF idt.raised
            THEN /\ Served("login", IF idt.exc \in ClientErrors THEN 401 ELSE 500,
                           ErrorBody(idt.exc))
                 /\ UNCHANGED aws_credentials
            ELSE /\ aws_credentials' =
                        [access_key |-> access_key.val, secret_key |-> secret_key.val,
                         account_id |-> idt.val.Account, region |-> region.val,
                         use_env |-> FALSE]
                 /\ Served("login", 200, SuccessBody(idt.val.Account, region.val))
    /\ UNCHANGED handler_vars

\* a route that clears the stored keys before the credentials are validated
aws_login_env_ClearsFirst ==
    /\ Len(http) < MaxRequests
    /\ \E json \in LoginBodies, idt \in StsResponses :
        LET region == Get(BodyOrEmpty(json), "region", JStr(US_EAST_1)) IN
        IF json = Unset
        THEN /\ Served("login/env", 400, ErrorBody("BadRequest"))
             /\ UNCHANGED aws_credentials
        ELSE IF region.raised
        THEN /\ Served("login/env", 500, ErrorBody(region.exc))
             /\ UNCHANGED aws_credentials
        ELSE IF idt.raised
        THEN /\ Served("login/env",
                       IF idt.exc \in ClientErrors \cup {"NoCredentialsError"} THEN 401 ELSE 500,
                       ErrorBody(IF idt.exc = "NoCredentialsError" THEN "No credentials found"
                                 ELSE IF idt.exc = "ClientError.InvalidClientTokenId"
                                 THEN "Invalid/expired credentials in environment"
                                 ELSE idt.exc))
             /\ aws_credentials' =
                    [aws_credentials EXCEPT !.access_key = None, !.secret_key = None]
        ELSE /\ aws_credentials' =
                    [access_key |-> None, secret_key |-> None,
                     account_id |-> idt.val.Account, region |-> region.val,
                     use_env |-> TRUE]
             /\ Served("login/env", 200, SuccessBody(idt.val.Account, region.val))
    /\ UNCHANGED handler_vars

aws_login_env ==
    /\ Len(http) < MaxRequests
    /\ \E json \in LoginBodies, idt \in StsResponses :
        LET region == Get(BodyOrEmpty(json), "region", JStr(US_EAST_1)) IN
        IF json = Unset
        THEN /\ Served("login/env", 400, ErrorBody("BadRequest"))
             /\ UNCHANGED aws_credentials
        ELSE IF region.raised
        THEN /\ Served("login/env", 500, ErrorBody(region.exc))
             /\ UNCHANGED aws_credentials
        ELSE IF idt.raised
        THEN /\ Served("login/env",
                       IF idt.exc \in ClientErrors \cup {"NoCredentialsError"} THEN 401 ELSE 500,
                       ErrorBody(IF idt.exc = "NoCredentialsError" THEN "No credentials found"
                                 ELSE IF idt.exc = "ClientError.InvalidClientTokenId"
                                 THEN "Invalid/expired credentials in environment"
                                 ELSE idt.exc))
             /\ UNCHANGED aws_credentials
        ELSE /\ aws_credentials' =
                    [access_key |-> None, secret_key |-> None,
                     account_id |-> idt.val.Account, region |-> region.val,
                     use_env |-> TRUE]
             /\ Served("login/env", 200, SuccessBody(idt.val.Account, region.val))
    /\ UNCHANGED handler_vars

aws_logout ==
    /\ Len(http) < MaxRequests
    /\ aws_credentials' = NoCredentials
    /\ Served("logout", 200, [success |-> TRUE])
    /\ UNCHANGED handler_vars

\* a status that looks at the stored key only
Authenticated_KeyOnly(c) == c.access_key # None

\* bool(aws_credentials.get('use_env') or (aws_credentials.get('access_key') is not None))
Authenticated(c) == c.use_env \/ c.access_key # None

auth_status ==
    /\ Len(http) < MaxRequests
    /\ Served("auth-status", 200,
              [authenticated |-> Authenticated(aws_credentials),
               accountId |-> aws_credentials.account_id,
               region |-> aws_credentials.region])
    /\ UNCHANGED aws_credentials
    /\ UNCHANGED handler_vars

InitBackend ==
    /\ aws_credentials = NoCredentials
    /\ http = <<>>
    /\ reply = Unset

(***************************************************************************)
(* Specifications.                                                         *)
(***************************************************************************)
Fresh(x) == [i \in Invocations |-> x]

InitLocals ==
    /\ message = Fresh(Unset)
    /\ instance_id = Fresh(Unset)
    /\ instance = Fresh(Unset)
    /\ action = Fresh("")
    /\ success = Fresh(FALSE)
    /\ ssm_instance = Fresh(Unset)
    /\ command_id = Fresh(0)
    /\ attempt = Fresh(0)
    /\ status = Fresh("")
    /\ slept = Fresh(0)
    /\ calls = Fresh(<<>>)
    /\ audit = Fresh(<<>>)
    /\ faults = Fresh(<<>>)
    /\ response = Fresh(Unset)

InitConfig ==
    /\ AUTO_HEALING_ENABLED \in BOOLEAN
    /\ SNS_TOPIC_ARN \in {"", "arn:aws:sns:topic"}
    /\ MAX_HEALING_ATTEMPTS \in {1, 3}

\* one invocation of the handler runs from its event to its response
Init ==
    /\ InitConfig
    /\ requests = <<>>
    /\ InitBackend
    /\ InitLocals
    /\ \E i \in Invocations :
        pc = [j \in Invocations |-> IF j = i THEN "received" ELSE "idle"]
    /\ \E ev \in PipelineEvents : event = Fresh(ev)

Step(i) ==
    \/ Parse(i)
    \/ Extract(i)
    \/ Inspect(i)
    \/ Classify(i)
    \/ ExecuteReboot(i)
    \/ SsmStart(i)
    \/ SendCommand(i)
    \/ Poll(i)
    \/ Publish(i)
    \/ Respond(i)

Next == \E i \in Invocations : Step(i)

Spec == Init /\ [][Next]_vars

\* one run of the handler to completion is never suspended for ever
FairSpec == Spec /\ \A i \in Invocations : WF_vars(Step(i))

\* the hosting environment runs two invocations at once, for alarms about
\* the same instance
InitConcurrent ==
    /\ AUTO_HEALING_ENABLED = TRUE
    /\ SNS_TOPIC_ARN = ""
    /\ MAX_HEALING_ATTEMPTS = 3
    /\ requests = <<>>
    /\ InitBackend
    /\ InitLocals
    /\ pc = [k \in Invocations |-> IF k \in {1, 2} THEN "received" ELSE "idle"]
    /\ \E e \in [{1, 2} -> ConcurrentEvents] :
          event = [k \in Invocations |-> IF k \in {1, 2} THEN e[k] ELSE Unset]

ConcurrentSpec == InitConcurrent /\ [][Next]_vars

\* parse_sns_message applied to each event of ParseEvents
InitParse ==
    /\ AUTO_HEALING_ENABLED = TRUE
    /\ SNS_TOPIC_ARN = ""
    /\ MAX_HEALING_ATTEMPTS = 3
    /\ requests = <<>>
    /\ InitBackend
    /\ InitLocals
    /\ pc = [j \in Invocations |-> IF j = 1 THEN "received" ELSE "idle"]
    /\ \E ev \in ParseEvents : event = Fresh(ev)

SpecParse == InitParse /\ [][\E i \in Invocations : Parse(i)]_vars

\* extract_instance_id applied to each message of ExtractMessages
InitExtract ==
    /\ AUTO_HEALING_ENABLED = TRUE
    /\ SNS_TOPIC_ARN = ""
    /\ MAX_HEALING_ATTEMPTS = 3
    /\ requests = <<>>
    /\ InitBackend
    /\ instance_id = Fresh(Unset)
    /\ instance = Fresh(Unset)
    /\ action = Fresh("")
    /\ success = Fresh(FALSE)
    /\ ssm_instance = Fresh(Unset)
    /\ command_id = Fresh(0)
    /\ attempt = Fresh(0)
    /\ status = Fresh("")
    /\ slept = Fresh(0)
    /\ calls = Fresh(<<>>)
    /\ audit = Fresh(<<>>)
    /\ faults = Fresh(<<>>)
    /\ response = Fresh(Unset)
    /\ event = Fresh(Unset)
    /\ pc = [j \in Invocations |-> IF j = 1 THEN "parsed" ELSE "idle"]
    /\ \E m \in ExtractMessages :
        message = [j \in Invocations |-> IF j = 1 THEN m ELSE Unset]

SpecExtract == InitExtract /\ [][\E i \in Invocations : Extract(i)]_vars

\* determine_healing_action applied to each message of ClassifyMessages
InitClassify ==
    /\ AUTO_HEALING_ENABLED = TRUE
    /\ SNS_TOPIC_ARN = ""
    /\ MAX_HEALING_ATTEMPTS = 3
    /\ requests = <<>>
    /\ InitBackend
    /\ action = Fresh("")
    /\ success = Fresh(FALSE)
    /\ ssm_instance = Fresh(Unset)
    /\ command_id = Fresh(0)
    /\ attempt = Fresh(0)
    /\ status = Fresh("")
    /\ slept = Fresh(0)
    /\ audit = Fresh(<<>>)
    /\ faults = Fresh(<<>>)
    /\ response = Fresh(Unset)
    /\ event = Fresh(Unset)
    /\ pc = [j \in Invocations |-> IF j = 1 THEN "resolved" ELSE "idle"]
    /\ \E m \in ClassifyMessages :
        /\ message = [j \in Invocations |-> IF j = 1 THEN m ELSE Unset]
        /\ instance_id = [j \in Invocations |->
                            IF j = 1 THEN extract_instance_id(m).val ELSE Unset]
    /\ instance = [j \in Invocations |-> IF j = 1 THEN Instance("running") ELSE Unset]
    /\ calls = [j \in Invocations |->
                  IF j = 1 THEN <<Call("describe_instances", "lambda_handler", instance_id[j])>>
                  ELSE <<>>]

SpecClassify == InitClassify /\ [][\E i \in Invocations : Classify(i)]_vars

\* the dashboard backend serves requests one after another; the Lambda
\* function is a separate program and takes no step here
InitDashboard ==
    /\ AUTO_HEALING_ENABLED = TRUE
    /\ SNS_TOPIC_ARN = ""
    /\ MAX_HEALING_ATTEMPTS = 3
    /\ requests = <<>>
    /\ InitBackend
    /\ InitLocals
    /\ pc = Fresh("idle")
    /\ event = Fresh(Unset)

NextDashboard ==
    \/ aws_login
    \/ aws_login_env
    \/ aws_logout
    \/ auth_status

SpecDashboard == InitDashboard /\ [][NextDashboard]_vars

(***************************************************************************)
(* Vocabulary of the properties.                                           *)
(***************************************************************************)
CallsOf(i, op) == {k \in DOMAIN calls[i] : calls[i][k].op = op}
FaultsAt(i, stage) == {k \in DOMAIN faults[i] : faults[i][k].stage = stage}
Responded(i) == pc[i] = "done"
ReachedExecution(i) == action[i] # "" /\ pc[i] \in {"executed", "reported", "done"}
ActionSet == {"reboot", "optimize_cpu", "clear_cache", "cleanup_disk", "diagnostic"}

\* the field of a mapping, Absent if there is none
Field(m, key) == IF m.t = "obj" /\ key \in DOMAIN m.o THEN m.o[key] ELSE Absent

\* the text of a str value, empty for anything else
TextOf(v) == IF v.t = "str" /\ "s" \in DOMAIN v THEN v.s ELSE <<>>

\* a str in the lexical form of a resource identifier
WellFormedId(v) ==
    /\ v.t = "str"
    /\ "s" \in DOMAIN v
    /\ Len(v.s) >= 2
    /\ v.s[1] = "i"
    /\ v.s[2] = "-"

\* position k of the text starts a token i-x with x in [a-z0-9]
TokenAt(text, k) ==
    /\ k >= 1
    /\ k + 2 <= Len(text)
    /\ text[k] = "i"
    /\ text[k+1] = "-"
    /\ text[k+2] \in IdChars

\* the candidates of the three structured strategies, in priority order
Candidates(m) ==
    <<Field(Field(Field(m, "Trigger"), "Dimensions"), "InstanceId"),
      Field(m, "instance_id"),
      Field(m, "InstanceId")>>

\* the message holds an identifier some strategy can find
HasIdentifier(m) ==
    \/ \E n \in 1..3 : WellFormedId(Candidates(m)[n])
    \/ /\ Field(m, "raw_message") # Absent
       /\ \E k \in 1..Len(PyStr(Field(m, "raw_message"))) :
            TokenAt(PyStr(Field(m, "raw_message")), k)

(***************************************************************************)
(* C1: with the switch off the executor calls no collaborator for any      *)
(* action, the result is unsuccessful and the response has statusCode 500. *)
(***************************************************************************)
C1_DisabledNoSideEffect ==
    ~AUTO_HEALING_ENABLED =>
        \A i \in Invocations :
            /\ \A k \in DOMAIN calls[i] :
                 calls[i][k].by \in {"lambda_handler", "publish_healing_result"}
            /\ CallsOf(i, "reboot_instances") = {}
            /\ CallsOf(i, "send_command") = {}
            /\ CallsOf(i, "get_command_invocation") = {}
            /\ Cardinality(CallsOf(i, "describe_instances")) <= 1
            /\ pc[i] \notin {"ssm_send", "polling"}
            /\ ReachedExecution(i) => ~success[i]
            /\ Responded(i) /\ action[i] # "" => response[i].statusCode = 500

C1_Witness ==
    /\ ~AUTO_HEALING_ENABLED
    /\ \E i \in Invocations :
        /\ Responded(i)
        /\ action[i] = "cleanup_disk"
        /\ response[i].statusCode = 500
        /\ response[i].body.status = "failed"

(***************************************************************************)
(* C2: after dispatch the polling loop terminates; it reads the status of  *)
(* the dispatched command at most 10 times and sleeps at most 3 * 10.      *)
(***************************************************************************)
PollBound ==
    \A i \in Invocations :
        /\ Cardinality(CallsOf(i, "get_command_invocation")) <= 10
        /\ Cardinality(CallsOf(i, "get_command_invocation")) = attempt[i]
        /\ \A k \in CallsOf(i, "get_command_invocation") : calls[i][k].arg = command_id[i]
        /\ slept[i] <= 30
        /\ slept[i] = 3 * attempt[i]

C2_PollingBounded ==
    /\ []PollBound
    /\ \A i \in Invocations : (pc[i] = "polling") ~> (pc[i] = "executed")

C2_Witness ==
    \E i \in Invocations :
        /\ pc[i] = "executed"
        /\ attempt[i] = 10
        /\ slept[i] = 30
        /\ status[i] \in {"Pending", "InProgress"}
        /\ ~success[i]

(***************************************************************************)
(* C3: an invocation that reached execution answers 200 exactly when the   *)
(* reboot request was accepted or a poll read Success, and 500 otherwise.  *)
(***************************************************************************)
RemediationSucceeded(i) ==
    \/ /\ action[i] = "reboot"
       /\ CallsOf(i, "reboot_instances") # {}
       /\ FaultsAt(i, "execute") = {}
    \/ /\ action[i] # "reboot"
       /\ CallsOf(i, "get_command_invocation") # {}
       /\ status[i] = "Success"

NotRunning(i) ==
    /\ ssm_instance[i] # Unset
    /\ ssm_instance[i] # Instance("running")

C3_StatusReflectsSuccess ==
    \A i \in Invocations :
        Responded(i) /\ action[i] # "" =>
            /\ response[i].statusCode \in {200, 500}
            /\ response[i].statusCode = 200 <=> RemediationSucceeded(i)
            /\ status[i] = "Failed" => response[i].statusCode = 500
            /\ attempt[i] = 10 /\ status[i] \notin {"Success", "Failed"}
                    => response[i].statusCode = 500
            /\ NotRunning(i) => response[i].statusCode = 500
            /\ ~AUTO_HEALING_ENABLED => response[i].statusCode = 500

C3_Witness ==
    \E i \in Invocations :
        /\ Responded(i)
        /\ action[i] = "clear_cache"
        /\ status[i] = "Success"
        /\ attempt[i] > 1
        /\ response[i].statusCode = 200

(***************************************************************************)
(* C4: an event from which no identifier can be extracted is answered 400  *)
(* with the extraction error, and no collaborator is called.               *)
(***************************************************************************)
C4_NoIdentifierIs400 ==
    \A i \in Invocations :
        Responded(i) /\ ~HasIdentifier(message[i]) =>
            /\ response[i].statusCode = 400
            /\ response[i].body.error = "Could not extract instance ID from alert"
            /\ calls[i] = <<>>

(***************************************************************************)
(* C5: an identifier was extracted and the lookup returned nothing: the    *)
(* response is 404 and the single lookup is the only collaborator call.    *)
(***************************************************************************)
C5_NotFoundIs404 ==
    \A i \in Invocations :
        Responded(i) /\ instance[i] = None =>
            /\ WellFormedId(instance_id[i])
            /\ response[i].statusCode = 404
            /\ calls[i] = <<Call("describe_instances", "lambda_handler", instance_id[i])>>
            /\ audit[i] = <<>>

C5_Witness ==
    \E i \in Invocations :
        /\ Responded(i)
        /\ instance[i] = None
        /\ \E k \in DOMAIN faults[i] : faults[i][k] = Fault("inspect", "ClientError", "get_instance_details")
        /\ response[i].statusCode = 404

(***************************************************************************)
(* C6 as stated: the response is a well-formed envelope, and a fault       *)
(* raised at any stage yields a 500 whose body carries the fault's message.*)
(***************************************************************************)
WellFormedEnvelope(r) ==
    /\ DOMAIN r = {"statusCode", "body"}
    /\ r.statusCode \in {200, 400, 404, 500}

CarriesFault(r, f) ==
    /\ r.statusCode = 500
    /\ "exc" \in DOMAIN r.body
    /\ r.body.exc = f.exc

\* a fault other than the decode error of a plain-text Message
Unexpected(f) == f.exc # "JSONDecodeError"

C6_AnyFaultIs500 ==
    \A i \in Invocations :
        Responded(i) =>
            /\ WellFormedEnvelope(response[i])
            /\ \A k \in DOMAIN faults[i] :
                 Unexpected(faults[i][k]) => CarriesFault(response[i], faults[i][k])

(***************************************************************************)
(* C6 as amended: the response is a well-formed envelope with statusCode   *)
(* 200, 400, 404 or 500; a fault that reaches the outermost handler yields *)
(* a 500 whose body carries its message, and the body carries the message  *)
(* of no other fault: one caught inside parse, inspect, execute or report  *)
(* is answered by that component's own outcome.                            *)
(***************************************************************************)
C6_EnvelopeAndOuterFaults ==
    \A i \in Invocations :
        /\ Responded(i) <=> response[i] # Unset
        /\ Responded(i) =>
            /\ WellFormedEnvelope(response[i])
            /\ \A k \in DOMAIN faults[i] :
                 faults[i][k].caught_by = "lambda_handler"
                    <=> CarriesFault(response[i], faults[i][k])

C6_Witness ==
    \E i \in Invocations :
        /\ Responded(i)
        /\ Len(faults[i]) = 2
        /\ faults[i][1].caught_by = "parse_sns_message"
        /\ faults[i][2].caught_by = "lambda_handler"
        /\ CarriesFault(response[i], faults[i][2])

(***************************************************************************)
(* C7: parse returns a mapping, never null; a Message that decodes to an   *)
(* object gives that object, and any decode error gives a message holding  *)
(* only raw_message.                                                       *)
(***************************************************************************)
C7_ParseReturnsMapping ==
    \A i \in Invocations :
        pc[i] = "parsed" =>
            /\ message[i] # None
            /\ IsDict(message[i])
            /\ FaultsAt(i, "parse") # {} => DOMAIN message[i].o = {"raw_message"}

(***************************************************************************)
(* C8: the strategies are tried in the order nested path, instance_id,     *)
(* InstanceId, raw-text pattern; the first well-formed candidate wins, so  *)
(* a well-formed Trigger.Dimensions.InstanceId is always the result.       *)
(***************************************************************************)
\* id is the leftmost, longest token i-[a-z0-9]+ of the text, None if there is none
LeftmostToken(text, id) ==
    IF \A k \in 1..Len(text) : ~TokenAt(text, k)
    THEN id = None
    ELSE /\ WellFormedId(id)
         /\ \E k \in 1..Len(text) :
              /\ TokenAt(text, k)
              /\ \A n \in 1..(k - 1) : ~TokenAt(text, n)
              /\ SubSeq(text, k, k + Len(id.s) - 1) = id.s
              /\ \A n \in 3..Len(id.s) : id.s[n] \in IdChars
              /\ k + Len(id.s) <= Len(text) => text[k + Len(id.s)] \notin IdChars

C8_FirstValidStrategyWins ==
    \A i \in Invocations :
        pc[i] \in {"extracted", "done"} /\ IsDict(message[i]) =>
            LET c == Candidates(message[i])
                raw == Field(message[i], "raw_message")
            IN  /\ WellFormedId(c[1]) => instance_id[i] = c[1]
                /\ ~WellFormedId(c[1]) /\ WellFormedId(c[2]) => instance_id[i] = c[2]
                /\ ~WellFormedId(c[1]) /\ ~WellFormedId(c[2]) /\ WellFormedId(c[3])
                        => instance_id[i] = c[3]
                /\ (\A n \in 1..3 : ~WellFormedId(c[n])) /\ raw # Absent
                        => LeftmostToken(PyStr(raw), instance_id[i])
                /\ (\A n \in 1..3 : ~WellFormedId(c[n])) /\ raw = Absent
                        => instance_id[i] = None

C8_Witness ==
    \E i \in Invocations :
        /\ pc[i] = "extracted"
        /\ Candidates(message[i])[1] = JStr(ID_B)
        /\ Candidates(message[i])[2] = JStr(ID_A)
        /\ Candidates(message[i])[3] = JStr(ID_PREFIX)
        /\ Field(message[i], "raw_message") = JStr(T_HOST \o ID_MIXED)
        /\ instance_id[i] = JStr(ID_B)

(***************************************************************************)
(* C9: the action returned is that of the highest-priority indicator the   *)
(* alert holds, matched without regard to case in the alarm name and the   *)
(* metric name; an alarm name with a status-check and a CPU token gives    *)
(* reboot.                                                                 *)
(***************************************************************************)
SameLetter(a, b) ==
    \/ a = b
    \/ \E n \in DOMAIN LowerLetters : {a, b} = {LowerLetters[n], UpperLetters[n]}

\* the keyword occurs in the text, in any mix of cases
OccursIn(text, kw) ==
    \E k \in 1..(Len(text) - Len(kw) + 1) :
        \A j \in 1..Len(kw) : SameLetter(text[k + j - 1], kw[j])

AlarmText(m) == TextOf(Field(m, "AlarmName"))
MetricText(m) == TextOf(Field(Field(m, "Trigger"), "MetricName"))

\* the priorities of the indicators present in the message; 5 is the default
Present(m) ==
    {5}
    \cup (IF OccursIn(AlarmText(m), KW_STATUS_CHECK)
             \/ OccursIn(MetricText(m), KW_STATUSCHECKFAILED) THEN {1} ELSE {})
    \cup (IF OccursIn(AlarmText(m), KW_CPU)
             \/ OccursIn(MetricText(m), KW_CPUUTILIZATION) THEN {2} ELSE {})
    \cup (IF OccursIn(AlarmText(m), KW_MEMORY)
             \/ OccursIn(MetricText(m), KW_MEMORYUTILIZATION) THEN {3} ELSE {})
    \cup (IF OccursIn(AlarmText(m), KW_DISK)
             \/ OccursIn(MetricText(m), KW_DISKUTILIZATION) THEN {4} ELSE {})

Priority(act) ==
    CASE act = "reboot"       -> 1
      [] act = "optimize_cpu" -> 2
      [] act = "clear_cache"  -> 3
      [] act = "cleanup_disk" -> 4
      [] act = "diagnostic"   -> 5

C9_PriorityOrder ==
    \A i \in Invocations :
        pc[i] = "classified" =>
            /\ action[i] \in ActionSet
            /\ Priority(action[i]) \in Present(message[i])
            /\ \A r \in Present(message[i]) : Priority(action[i]) <= r
            /\ OccursIn(AlarmText(message[i]), KW_STATUS_CHECK)
                    /\ OccursIn(AlarmText(message[i]), KW_CPU)
                    => action[i] = "reboot"

C9_Witness ==
    \E i \in Invocations :
        /\ pc[i] = "classified"
        /\ AlarmText(message[i]) = T_CPU_UPPER \o T_STATUS_CHECK
        /\ MetricText(message[i]) = M_DISK
        /\ action[i] = "reboot"

(***************************************************************************)
(* C10: classify returns one action of the closed set for every message    *)
(* that carries an identifier, whatever the types of AlarmName and Trigger,*)
(* and never raises.                                                       *)
(***************************************************************************)
C10_ClassifyTotal ==
    \A i \in Invocations :
        pc[i] \in {"classified", "done"} =>
            /\ FaultsAt(i, "classify") = {}
            /\ action[i] \in ActionSet


(***************************************************************************)
(* C11: when the command was dispatched and each of the 10 polls read a    *)
(* status that is neither Success nor Failed, the result is unsuccessful,  *)
(* the response has statusCode 500, and the invocation polls no 11th time  *)
(* and dispatches the command no second time.                              *)
(***************************************************************************)
PollsExhausted(i) ==
    /\ CallsOf(i, "send_command") # {}
    /\ attempt[i] = 10
    /\ status[i] \in {"Pending", "InProgress", "TimedOut"}
    /\ FaultsAt(i, "execute") = {}

TimedOutOutcome ==
    \A i \in Invocations :
        PollsExhausted(i) =>
            /\ pc[i] \in {"executed", "reported", "done"}
            /\ ~success[i]
            /\ Cardinality(CallsOf(i, "get_command_invocation")) = 10
            /\ Cardinality(CallsOf(i, "send_command")) = 1
            /\ Responded(i) =>
                 /\ response[i].statusCode = 500
                 /\ response[i].body.status = "failed"

NoCommandCallAfterTimeout ==
    \A i \in Invocations :
        PollsExhausted(i) =>
            /\ Len(calls'[i]) > Len(calls[i]) =>
                 calls'[i][Len(calls'[i])].op = "publish"
            /\ requests' = requests

C11_TimeoutIsFailure ==
    /\ []TimedOutOutcome
    /\ [][NoCommandCallAfterTimeout]_vars
    /\ \A i \in Invocations :
         PollsExhausted(i) ~> (Responded(i) /\ response[i].statusCode = 500)

C11_Witness ==
    \E i \in Invocations :
        /\ Responded(i)
        /\ PollsExhausted(i)
        /\ status[i] = "InProgress"
        /\ Cardinality(CallsOf(i, "get_command_invocation")) = 10
        /\ response[i].statusCode = 500

(***************************************************************************)
(* C12: every transition of a command invocation writes an audit entry:    *)
(* one at dispatch, one for each status poll and one for the terminal      *)
(* outcome, the timed-out outcome included.                                *)
(***************************************************************************)
Dispatched(i) == pc[i] = "polling" \/ attempt[i] >= 1

C12_EveryTransitionAudited ==
    \A i \in Invocations :
        Dispatched(i) =>
            /\ Len(audit[i]) >= 1
            /\ audit[i][1].status = "initiated"
            /\ Len(audit[i]) >= 1 + attempt[i]
            /\ pc[i] \in {"executed", "reported", "done"} =>
                 audit[i][Len(audit[i])].status \in {"completed", "failed"}

(***************************************************************************)
(* C13: reporting a result while no notification destination is configured *)
(* raises nothing, makes no publish call and appends exactly one audit     *)
(* entry for the result.                                                   *)
(***************************************************************************)
ReportsWithoutDestination(i) ==
    /\ SNS_TOPIC_ARN = ""
    /\ pc[i] = "executed"
    /\ pc'[i] = "reported"

C13_ReportWithoutDestinationAudits ==
    [][\A i \in Invocations :
         ReportsWithoutDestination(i) =>
            /\ faults'[i] = faults[i]
            /\ calls'[i] = calls[i]
            /\ Len(audit'[i]) = Len(audit[i]) + 1]_vars

(***************************************************************************)
(* C14: the outcome of the publish never changes the remediation outcome:  *)
(* the response is the one the execution result determines, whether the    *)
(* publish succeeded, raised or was skipped, and the report step leaves    *)
(* the execution result as it was.                                         *)
(***************************************************************************)
ResponseOf(i) ==
    [statusCode |-> IF success[i] THEN 200 ELSE 500,
     body |-> [instance_id |-> instance_id[i], action |-> action[i],
               status |-> IF success[i] THEN "completed" ELSE "failed"]]

OutcomeKept ==
    \A i \in Invocations :
        pc[i] = "executed" /\ pc'[i] = "reported" =>
            /\ success'[i] = success[i]
            /\ action'[i] = action[i]
            /\ instance_id'[i] = instance_id[i]
            /\ audit'[i] = audit[i]

C14_PublishNeverChangesOutcome ==
    /\ [](\A i \in Invocations :
            Responded(i) /\ ReachedExecution(i) => response[i] = ResponseOf(i))
    /\ [][OutcomeKept]_vars

C14_Witness ==
    \E i \in Invocations :
        /\ Responded(i)
        /\ FaultsAt(i, "report") # {}
        /\ CallsOf(i, "publish") # {}
        /\ success[i]
        /\ response[i].statusCode = 200
        /\ response[i].body.status = "completed"

(***************************************************************************)
(* C15: for every action other than reboot the executor looks the instance *)
(* up again and sends the command only when its state is running; when the *)
(* second lookup finds no instance or any other state, whatever the first  *)
(* lookup found, no send_command and no poll is made and the result is     *)
(* unsuccessful.                                                           *)
(***************************************************************************)
Revalidations(i) ==
    {k \in CallsOf(i, "describe_instances") : calls[i][k].by = "execute_ssm_command"}

C15_DispatchOnlyWhenRunning ==
    \A i \in Invocations :
        /\ action[i] \in ActionSet \ {"reboot"} /\ AUTO_HEALING_ENABLED
              /\ pc[i] \in {"ssm_send", "polling", "executed", "reported", "done"}
              => Cardinality(Revalidations(i)) = 1
        /\ action[i] = "reboot" => Revalidations(i) = {}
        /\ pc[i] \in {"ssm_send", "polling"} => ssm_instance[i] = Instance("running")
        /\ \A k \in CallsOf(i, "send_command") \cup CallsOf(i, "get_command_invocation") :
              /\ ssm_instance[i] = Instance("running")
              /\ \E r \in Revalidations(i) : r < k
        /\ NotRunning(i) =>
              /\ CallsOf(i, "send_command") = {}
              /\ CallsOf(i, "get_command_invocation") = {}
              /\ \A k \in DOMAIN requests : requests[k].by # i
              /\ pc[i] \in {"executed", "reported", "done"}
              /\ ~success[i]

C15_Witness ==
    \E i \in Invocations :
        /\ Responded(i)
        /\ instance[i] = Instance("running")
        /\ ssm_instance[i] = Instance("stopped")
        /\ CallsOf(i, "send_command") = {}
        /\ response[i].statusCode = 500

(***************************************************************************)
(* C16: two invocations running at once for alarms about the same instance *)
(* are neither serialised nor deduplicated: an invocation that has come to *)
(* its remediation request can always issue it, whatever requests another  *)
(* invocation has issued against that instance, and issuing it adds a      *)
(* request of its own; so both issue theirs, two reboots or a reboot       *)
(* between the other's send_command and its terminal poll.                 *)
(***************************************************************************)
RequestedBy(j, id) ==
    {k \in DOMAIN requests : requests[k].by = j /\ requests[k].id = id}

NotSerialised ==
    \A i, j \in Invocations :
        i # j /\ RequestedBy(j, instance_id[i]) # {} =>
            /\ pc[i] = "classified" => ENABLED (ExecuteReboot(i) \/ SsmStart(i))
            /\ pc[i] = "ssm_send" => ENABLED SendCommand(i)

NotDeduplicated ==
    \A i \in Invocations :
        \/ pc[i] = "classified" /\ action[i] = "reboot" /\ pc'[i] = "executed"
        \/ pc[i] = "ssm_send" /\ pc'[i] # "ssm_send"
        => requests' = Append(requests, Request(i, requests'[Len(requests')].op, instance_id[i]))

C16_ConcurrentRequestsRace ==
    /\ []NotSerialised
    /\ [][NotDeduplicated]_vars

C16_Witness ==
    \E i, j \in Invocations :
        /\ i # j
        /\ pc[j] = "polling"
        /\ attempt[j] \in 1..9
        /\ instance_id[i] = instance_id[j]
        /\ requests = <<Request(j, "send_command", instance_id[j]),
                        Request(i, "reboot_instances", instance_id[j])>>

(***************************************************************************)
(* C17: an exception raised by a collaborator call inside the executor     *)
(* (the reboot request, the second lookup, the dispatch or any poll) is    *)
(* caught inside the executor and makes the result unsuccessful: the       *)
(* invocation goes on to report status failed and answers 500, and after   *)
(* an exception during polling no further poll is made.                    *)
(***************************************************************************)
ExecutorFaulted(i) == FaultsAt(i, "execute") # {}

FaultContained ==
    \A i \in Invocations :
        ExecutorFaulted(i) =>
            /\ Cardinality(FaultsAt(i, "execute")) = 1
            /\ \A k \in FaultsAt(i, "execute") :
                 faults[i][k].caught_by \in
                    {"execute_reboot_instance", "execute_ssm_command", "get_instance_details"}
            /\ \A k \in DOMAIN faults[i] : faults[i][k].caught_by # "lambda_handler"
            /\ pc[i] \in {"executed", "reported", "done"}
            /\ ~success[i]
            /\ \A k \in CallsOf(i, "publish") : calls[i][k].arg.status = "failed"
            /\ pc[i] \in {"reported", "done"} /\ SNS_TOPIC_ARN # ""
                  => Cardinality(CallsOf(i, "publish")) = 1
            /\ Responded(i) =>
                 /\ response[i].statusCode = 500
                 /\ response[i].body.status = "failed"

NoCallAfterFault ==
    \A i \in Invocations :
        ExecutorFaulted(i) =>
            /\ requests' = requests
            /\ \A k \in DOMAIN calls'[i] : k > Len(calls[i]) => calls'[i][k].op = "publish"

C17_ExecutorFaultsContained ==
    /\ []FaultContained
    /\ [][NoCallAfterFault]_vars
    /\ \A i \in Invocations :
         ExecutorFaulted(i) ~> (Responded(i) /\ response[i].statusCode = 500)

C17_Witness ==
    \E i \in Invocations :
        /\ Responded(i)
        /\ ExecutorFaulted(i)
        /\ attempt[i] = 2
        /\ Cardinality(CallsOf(i, "get_command_invocation")) = 2
        /\ \E k \in CallsOf(i, "publish") : calls[i][k].arg.status = "failed"
        /\ response[i].statusCode = 500

(***************************************************************************)
(* C18: every identifier extract returns begins with i-; a candidate of an *)
(* earlier strategy that is empty, not a string or without the prefix is   *)
(* never returned and does not end the search: a later strategy that finds *)
(* a well-formed identifier still supplies the result.                     *)
(***************************************************************************)
Returned(i) ==
    pc[i] \in {"extracted", "done"} /\ instance_id[i] \notin {Unset, None}

\* some strategy after the n-th finds a well-formed identifier
LaterFinds(m, n) ==
    \/ \E k \in (n + 1)..3 : WellFormedId(Candidates(m)[k])
    \/ /\ Field(m, "raw_message") # Absent
       /\ \E k \in 1..Len(PyStr(Field(m, "raw_message"))) :
            TokenAt(PyStr(Field(m, "raw_message")), k)

C18_ExtractedIdHasPrefix ==
    \A i \in Invocations :
        /\ Returned(i) =>
              /\ WellFormedId(instance_id[i])
              /\ startswith(instance_id[i].s, ID_PREFIX)
        /\ pc[i] \in {"extracted", "done"} /\ IsDict(message[i]) =>
              \A n \in 1..3 :
                 LET c == Candidates(message[i])[n] IN
                 c # Absent /\ ~WellFormedId(c) =>
                    /\ instance_id[i] # c
                    /\ LaterFinds(message[i], n) => Returned(i)

C18_Witness ==
    \E i \in Invocations :
        /\ pc[i] = "extracted"
        /\ Candidates(message[i])[1] = JStr(ID_OTHER)
        /\ Candidates(message[i])[2] = JStr(<<>>)
        /\ Candidates(message[i])[3] = JNum(7)
        /\ Field(message[i], "raw_message") = JStr(T_HOST \o ID_A)
        /\ instance_id[i] = JStr(ID_A)

(***************************************************************************)
(* C19: polls are made only after a dispatch that returned, each after one *)
(* wait interval; no poll follows a poll that read Success or Failed;      *)
(* Success gives a successful result and Failed an unsuccessful one; any   *)
(* other status is followed by another poll while the budget lasts.        *)
(***************************************************************************)
Polls(i) == CallsOf(i, "get_command_invocation")

PollingProtocol ==
    \A i \in Invocations :
        /\ \A k \in Polls(i) :
              /\ \E d \in CallsOf(i, "send_command") : d < k
              /\ calls[i][k].arg = command_id[i]
        /\ Polls(i) # {} =>
              /\ Cardinality(CallsOf(i, "send_command")) = 1
              /\ command_id[i] = i
              /\ audit[i][1].status = "initiated"
        /\ slept[i] = sleep_interval * Cardinality(Polls(i))
        /\ status[i] \in {"Success", "Failed"} =>
              /\ pc[i] \in {"executed", "reported", "done"}
              /\ success[i] <=> status[i] = "Success"
        /\ status[i] \in {"Pending", "InProgress", "TimedOut"}
              /\ Cardinality(Polls(i)) < max_attempts
              /\ FaultsAt(i, "execute") = {}
              => pc[i] = "polling" /\ ENABLED Poll(i)

PollStep ==
    \A i \in Invocations :
        /\ status[i] \in {"Success", "Failed"} =>
              CallsOf(i, "get_command_invocation")
                 = {k \in DOMAIN calls'[i] : calls'[i][k].op = "get_command_invocation"}
        /\ Len(calls'[i]) > Len(calls[i])
              /\ calls'[i][Len(calls'[i])].op = "get_command_invocation"
              => /\ pc[i] = "polling"
                 /\ slept'[i] = slept[i] + sleep_interval

C19_PollingProtocol ==
    /\ []PollingProtocol
    /\ [][PollStep]_vars

C19_Witness ==
    \E i \in Invocations :
        /\ Responded(i)
        /\ Cardinality(Polls(i)) = 3
        /\ slept[i] = 9
        /\ status[i] = "Failed"
        /\ ~success[i]
        /\ response[i].statusCode = 500

(***************************************************************************)
(* C20: one invocation issues at most one remediation request: at most one *)
(* reboot_instances or at most one send_command, never both and never a    *)
(* second one after a failure or a timeout, whatever MAX_HEALING_ATTEMPTS  *)
(* is set to.                                                              *)
(***************************************************************************)
RequestsOf(i) == {k \in DOMAIN requests : requests[k].by = i}

C20_AtMostOneRequest ==
    \A i \in Invocations :
        /\ Cardinality(CallsOf(i, "reboot_instances"))
              + Cardinality(CallsOf(i, "send_command")) <= 1
        /\ Cardinality(RequestsOf(i)) <= 1
        /\ Cardinality(RequestsOf(i))
              = Cardinality(CallsOf(i, "reboot_instances") \cup CallsOf(i, "send_command"))
        /\ CallsOf(i, "reboot_instances") # {} => action[i] = "reboot"
        /\ CallsOf(i, "send_command") # {} => action[i] \in ActionSet \ {"reboot"}

C20_Witness ==
    \E i \in Invocations :
        /\ MAX_HEALING_ATTEMPTS = 3
        /\ Responded(i)
        /\ response[i].statusCode = 500
        /\ FaultsAt(i, "execute") # {}
        /\ Cardinality(CallsOf(i, "send_command")) = 1
        /\ CallsOf(i, "get_command_invocation") = {}
        /\ Cardinality(RequestsOf(i)) = 1

(***************************************************************************)
(* C21: the stages run in the order parse, extract, inspect, classify,     *)
(* execute, report; publish_healing_result is called exactly once in every *)
(* invocation that reaches execution, only after the executor (all its     *)
(* polls included) has returned, and never in an invocation answered 400   *)
(* or 404.                                                                 *)
(***************************************************************************)
\* the stages an invocation may come from when it enters a stage
Before(stage) ==
    CASE stage = "parsed"     -> {"received"}
      [] stage = "extracted"  -> {"parsed"}
      [] stage = "resolved"   -> {"extracted"}
      [] stage = "classified" -> {"resolved"}
      [] stage = "ssm_send"   -> {"classified"}
      [] stage = "polling"    -> {"ssm_send"}
      [] stage = "executed"   -> {"classified", "ssm_send", "polling"}
      [] stage = "reported"   -> {"executed"}
      [] stage = "done"       -> {"parsed", "extracted", "resolved", "reported"}

StageOrder ==
    \A i \in Invocations :
        pc'[i] # pc[i] =>
            /\ pc[i] \in Before(pc'[i])
            /\ pc'[i] = "done" /\ response'[i].statusCode \in {400, 404}
                  => pc[i] \in {"parsed", "extracted"}
            /\ pc'[i] = "done" /\ pc[i] = "reported" => response'[i].statusCode \in {200, 500}

ReportedOnce ==
    \A i \in Invocations :
        /\ Cardinality(CallsOf(i, "publish")) <= 1
        /\ \A k \in CallsOf(i, "publish") :
              /\ k = Len(calls[i])
              /\ pc[i] \in {"reported", "done"}
              /\ ReachedExecution(i)
        /\ pc[i] \in {"reported", "done"} /\ ReachedExecution(i) /\ SNS_TOPIC_ARN # ""
              => Cardinality(CallsOf(i, "publish")) = 1
        /\ Responded(i) /\ response[i].statusCode \in {400, 404}
              => CallsOf(i, "publish") = {} /\ FaultsAt(i, "report") = {}

C21_StagesInOrder ==
    /\ []ReportedOnce
    /\ [][StageOrder]_vars
    /\ \A i \in Invocations : (pc[i] = "executed") ~> (pc[i] = "reported")

C21_Witness ==
    \E i \in Invocations :
        /\ pc[i] = "reported"
        /\ Cardinality(CallsOf(i, "get_command_invocation")) = 4
        /\ status[i] = "Success"
        /\ CallsOf(i, "publish") = {Len(calls[i])}
        /\ calls[i][Len(calls[i])].arg.status = "success"

(***************************************************************************)
(* C22: the reboot path does not read the run state: when the alarm is     *)
(* classified reboot, the instance exists in whatever state and the switch *)
(* is on, reboot_instances is called, and when it returns the response has *)
(* statusCode 200.                                                         *)
(***************************************************************************)
RebootDue(i) ==
    /\ AUTO_HEALING_ENABLED
    /\ action[i] = "reboot"
    /\ \E st \in RunStates : instance[i] = Instance(st)

RebootIssued ==
    \A i \in Invocations :
        /\ RebootDue(i) /\ pc[i] = "classified" => ENABLED ExecuteReboot(i)
        /\ RebootDue(i) /\ pc[i] \in {"executed", "reported", "done"} =>
              /\ Cardinality(CallsOf(i, "reboot_instances")) = 1
              /\ \A k \in CallsOf(i, "reboot_instances") : calls[i][k].arg = instance_id[i]
              /\ \E k \in DOMAIN requests :
                    requests[k] = Request(i, "reboot_instances", instance_id[i])
              /\ ssm_instance[i] = Unset
              /\ FaultsAt(i, "execute") = {} =>
                    /\ success[i]
                    /\ Responded(i) => response[i].statusCode = 200

RebootStep ==
    \A i \in Invocations :
        RebootDue(i) /\ pc[i] = "classified" /\ pc'[i] # pc[i] =>
            /\ pc'[i] = "executed"
            /\ requests' = Append(requests, Request(i, "reboot_instances", instance_id[i]))

C22_RebootIgnoresRunState ==
    /\ []RebootIssued
    /\ [][RebootStep]_vars

C22_Witness ==
    \E i \in Invocations :
        /\ Responded(i)
        /\ action[i] = "reboot"
        /\ instance[i] = Instance("stopped")
        /\ CallsOf(i, "reboot_instances") # {}
        /\ response[i].statusCode = 200

(***************************************************************************)
(* C23: a login request that fails, an explicit login without a key or     *)
(* whose validation raises or an environment login whose validation        *)
(* raises, leaves all five fields of aws_credentials as they were, so the  *)
(* session established before stays as it was.                             *)
(***************************************************************************)
LoginRoutes == {"login", "login/env"}

\* the step serves one request, on this route and with this status code
Serves(route, code) == http' = Append(http, [route |-> route, code |-> code])

FailedLoginStep ==
    \E route \in LoginRoutes, code \in {400, 401, 500} : Serves(route, code)

C23_FailedLoginKeepsCredentials ==
    [][FailedLoginStep =>
          /\ aws_credentials' = aws_credentials
          /\ Authenticated(aws_credentials') = Authenticated(aws_credentials)
          /\ "error" \in DOMAIN reply'.body]_vars

C23_Witness ==
    /\ Len(http) = 3
    /\ http[1] = [route |-> "login", code |-> 200]
    /\ http[2] = [route |-> "login/env", code |-> 401]
    /\ http[3] = [route |-> "login", code |-> 400]
    /\ aws_credentials =
          [access_key |-> JStr(KEY_A), secret_key |-> JStr(SECRET),
           account_id |-> JStr(ACCOUNT), region |-> JStr(EU_WEST_1), use_env |-> FALSE]

(***************************************************************************)
(* C24: after any sequence of login, environment-login and logout requests *)
(* auth-status reports authenticated exactly when a login has succeeded    *)
(* and no logout was served since; use_env is true only while access_key   *)
(* and secret_key are unset; after a logout all five fields are cleared.   *)
(***************************************************************************)
\* a login succeeded in the requests served and no logout came after it
LoggedIn(served) ==
    \E j \in DOMAIN served :
        /\ served[j].route \in LoginRoutes
        /\ served[j].code = 200
        /\ \A k \in (j + 1)..Len(served) : served[k].route # "logout"

LastRoute == IF http = <<>> THEN "" ELSE http[Len(http)].route

====
